---- MODULE Spec2Model ----
(***************************************************************************)
(* WebSocketStream (ext/websocket/02_websocketstream.js) as a state        *)
(* machine.  One instance is modelled: its constructor, the connect        *)
(* callbacks, the early-close drain loop, close(), the two pump (pull)     *)
(* invocations that may be in flight, the readable controller and the      *)
(* clock read by the close-response timeout.  Every action is one          *)
(* run-to-completion segment of the JavaScript (the code between two       *)
(* awaits or one callback).                                                *)
(***************************************************************************)
EXTENDS Integers, Sequences, FiniteSets, TLC

\* ------------------------------------------------------------------ bounds
\* transport events delivered over the whole run
MaxEvents == 2
\* close() invocations over the whole run
MaxCloseCalls == 2
\* chunks written to the outbound sink over the whole run
MaxWrites == 1

\* ------------------------------------------------------- program constants
CLOSE_RESPONSE_TIMEOUT == 5000
MaxReasonBytes == 123
\* the instants at which the clock is read, from the moment the timestamp is
\* scheduled: at once, just short of the timeout, at the timeout and just past it
ClockReadings ==
  << 0, CLOSE_RESPONSE_TIMEOUT - 1, CLOSE_RESPONSE_TIMEOUT, CLOSE_RESPONSE_TIMEOUT + 1 >>

\* ------------------------------------------------------------------ values
\* JavaScript values the futures and events carry, as uniform records
Val(t, c, s) == [t |-> t, code |-> c, s |-> s]
Undefined == Val("undefined", 0, "")
StringVal(s) == Val("string", 0, s)
\* the payload of the n-th message the transport delivers (a string or bytes)
Payload(n) == Val("payload", n, "")
CloseInfoVal(c, s) == Val("closeInfo", c, s)
ErrorVal(s) == Val("error", 0, s)
ConnectionVal == Val("connection", 0, "")

NetworkError == ErrorVal("NetworkError: Closed while connecting")
AbortReason == ErrorVal("AbortError: signal.reason")
ConnectFailure == ErrorVal("connect failed")
\* the failure of an op cancelled through its cancel handle (core.InterruptedPrototype)
Interrupted == ErrorVal("Interrupted")
CloseSendFailure == ErrorVal("close send failed")

\* ---------------------------------------------------------------- Deferred
\* Deferred of ext/web/06_streams.js: state is "pending" or "fulfilled";
\* resolve and reject are no-ops once the state left "pending"
NewDeferred == [state |-> "pending", how |-> "none", value |-> Undefined]

DeferredResolve_Overwrite(d, v) == [state |-> "fulfilled", how |-> "resolved", value |-> v]

DeferredResolve(d, v) ==
  IF d.state # "pending" THEN d
  ELSE [state |-> "fulfilled", how |-> "resolved", value |-> v]

DeferredReject(d, v) ==
  IF d.state # "pending" THEN d
  ELSE [state |-> "fulfilled", how |-> "rejected", value |-> v]

\* -------------------------------------------------------------- validation
\* characters are code points; protocols are sequences of code points
ToLowerCase(c) == IF c \in 65..90 THEN c + 32 ELSE c
StringPrototypeToLowerCase(p) == [i \in DOMAIN p |-> ToLowerCase(p[i])]

p_Chat == <<67, 104, 97, 116>>
p_chat == <<99, 104, 97, 116>>
p_soap == <<115, 111, 97, 112>>
ProtocolLists ==
  { <<>>, <<p_Chat, p_soap>>, <<p_Chat, p_chat>>, <<p_chat, p_chat>>,
    <<p_soap, p_chat, p_Chat>> }

ProtocolsUnique_CaseSensitive(ps) ==
  Len(ps) = Cardinality({ ps[i] : i \in DOMAIN ps })

\* options.protocols.length === new Set(protocols.map(toLowerCase)).size
ProtocolsUnique(ps) ==
  Len(ps) = Cardinality({ StringPrototypeToLowerCase(ps[i]) : i \in DOMAIN ps })

\* URLs: the scheme and whether a fragment (or a bare trailing #) is present
Urls == { [scheme |-> "ws", fragment |-> FALSE],
          [scheme |-> "http", fragment |-> FALSE],
          [scheme |-> "wss", fragment |-> TRUE] }
UrlSchemeOk(u) == u.scheme \in {"ws", "wss"}
UrlFragmentOk(u) == ~u.fragment

\* webidl "unsigned short" without [EnforceRange]: the integer modulo 2^16
NoCode == -1
ToUint16(c) == IF c = NoCode THEN NoCode ELSE c % 65536

\* a reason is a string of n code points, each encoded by w UTF-8 bytes
Reason(n, w) == [n |-> n, w |-> w]
EmptyReason == Reason(0, 1)
StringLength(r) == r.n
Utf8ByteLength(r) == r.n * r.w

\* closeInfo.code && !(code === 1000 || (3000 <= code && code < 5000))
CodeRejected(code) ==
  /\ code # NoCode
  /\ code # 0
  /\ ~(code = 1000 \/ (3000 <= code /\ code < 5000))

ReasonRejected_StringLength(r) == StringLength(r) > 0 /\ StringLength(r) > MaxReasonBytes

\* closeInfo.reason && byteLength(encode(reason)) > 123
ReasonRejected(r) == StringLength(r) > 0 /\ Utf8ByteLength(r) > MaxReasonBytes

\* let code = closeInfo.code; if (closeInfo.reason && code === undefined) code = 1000
CloseCode(info) ==
  IF StringLength(info.reason) > 0 /\ ToUint16(info.code) = NoCode THEN 1000
  ELSE ToUint16(info.code)

CloseThrows(info) == CodeRejected(ToUint16(info.code)) \/ ReasonRejected(info.reason)

CloseInfos ==
  { [code |-> c, reason |-> EmptyReason] :
      c \in {NoCode, 0, 999, 1000, 2999, 3000, 4999, 5000, 66536} }
  \cup
  { [code |-> NoCode, reason |-> r] :
      r \in { Reason(123, 1), Reason(124, 1), Reason(41, 3), Reason(42, 3), Reason(31, 4) } }
  \cup
  { [code |-> 3000, reason |-> Reason(124, 1)], [code |-> 5000, reason |-> Reason(3, 1)] }

\* ------------------------------------------------------------------- state
VARIABLES
  ctor,         \* "new", "threw" or "constructed"
  args,         \* the constructor's arguments
  signal,       \* options.signal: "none", "idle" or "aborted"
  abortListener,\* the abort algorithm is registered on the signal
  cancelRid,    \* the cancel handle: "none", "open" or "closed"
  create,       \* op_ws_create: "none", "pending", "resolved" or "rejected"
  connection,   \* this[_connection]
  closed,       \* this[_closed]
  closeSent,    \* this[_closeSent]
  earlyClose,   \* this[_earlyClose]
  rid,          \* this[_rid] is set
  handle,       \* the connection resource: "none", "open" or "released"
  releaseCalls, \* core.tryClose / core.close calls on the connection resource
  calls,        \* transport operations issued so far, by name
  early,        \* position of the early-close branch
  closeOps,     \* op_ws_close calls in flight and setTimeout callbacks scheduled
  pulls,        \* the pump invocations: started by the stream, started by closeSent
  readable,     \* the readable controller: "none", "readable", "closed", "errored"
  writable,     \* the writable stream: "none", "writable", "closing", "closed", "errored"
  sink,         \* the sink operation in flight: "idle", "write", "close" or "abort"
  closedThen,   \* the reaction registered on this.closed is queued
  enqueued,     \* items enqueued on the inbound stream, in order
  readCount,    \* items the consumer has read
  messages,     \* Text and Binary events delivered by the transport
  nEvents,      \* events delivered by the transport
  pings,        \* Ping events delivered by the transport
  now,          \* new Date().getTime()
  ticks,        \* clock advances so far: now = ClockReadings[ticks + 1]
  closeLog,     \* the close() invocations so far: the argument, whether it threw
  lastEvent     \* the event the transport delivered last

vars == << ctor, args, signal, abortListener, cancelRid, create, connection, closed,
           closeSent, earlyClose, rid, handle, releaseCalls, calls, early, closeOps,
           pulls, readable, writable, sink, closedThen, enqueued, readCount,
           messages, nEvents, pings, now, ticks, closeLog, lastEvent >>

\* --------------------------------------------------------------- transport
\* InboundEvent as op_ws_next_event returns it: {0: kind, 1: value}
Text(n) == [kind |-> 0, value |-> Payload(n)]
Binary(n) == [kind |-> 1, value |-> Payload(n)]
Pong == [kind |-> 2, value |-> Undefined]
Ping == [kind |-> 3, value |-> Undefined]
ErrorEvent == [kind |-> 5, value |-> StringVal("boom")]
ClosedEvent == [kind |-> 6, value |-> Undefined]
CloseEvent == [kind |-> 4001, value |-> StringVal("bye")]
\* the events the transport may deliver next, n messages having been delivered
Events(n) == {Text(n + 1), Binary(n + 1), Pong, Ping, ErrorEvent, ClosedEvent, CloseEvent}

NoCalls == [cancelHandle |-> 0, create |-> 0, close |-> 0, pong |-> 0, send |-> 0]
Called(op) == [calls EXCEPT ![op] = @ + 1]

\* core.tryClose(rid): releases the resource if it is still open
TryClose(h) == IF h = "open" THEN "released" ELSE h

\* ------------------------------------------------------------------- pumps
Pumps == {"stream", "closeSent"}
IdlePull == [pc |-> "idle", value |-> Undefined, late |-> FALSE]
\* core.opAsync("op_ws_next_event", rid): rejects when rid is no resource
NextEventRequest(h) ==
  [pc |-> IF h = "open" THEN "awaitEvent" ELSE "awaitFail", value |-> Undefined, late |-> FALSE]

NoEvent == [kind |-> NoCode, value |-> Undefined]
NoArgs == [url |-> [scheme |-> "", fragment |-> FALSE], protocols |-> <<>>]

Init ==
  /\ ctor = "new"
  /\ args = NoArgs
  /\ signal = "none"
  /\ abortListener = FALSE
  /\ cancelRid = "none"
  /\ create = "none"
  /\ connection = NewDeferred
  /\ closed = NewDeferred
  /\ closeSent = NewDeferred
  /\ earlyClose = FALSE
  /\ rid = FALSE
  /\ handle = "none"
  /\ releaseCalls = 0
  /\ calls = NoCalls
  /\ early = "idle"
  /\ closeOps = [pending |-> 0, timers |-> 0]
  /\ pulls = [p \in Pumps |-> IdlePull]
  /\ readable = "none"
  /\ writable = "none"
  /\ sink = "idle"
  /\ closedThen = "none"
  /\ enqueued = <<>>
  /\ readCount = 0
  /\ messages = 0
  /\ nEvents = 0
  /\ pings = 0
  /\ now = ClockReadings[1]
  /\ ticks = 0
  /\ closeLog = <<>>
  /\ lastEvent = NoEvent

streamVars == << rid, handle, releaseCalls, early, closeOps, pulls, readable, writable, sink,
                 closedThen, enqueued, readCount, messages, nEvents, pings,
                 lastEvent >>
clockVars == << now, ticks >>

\* ------------------------------------------------------------- constructor
\* the URL or the protocol list is rejected: nothing has been done yet
ConstructThrowsValidation(u, ps, sig) ==
  /\ ctor = "new"
  /\ ~UrlSchemeOk(u) \/ ~UrlFragmentOk(u) \/ ~ProtocolsUnique(ps)
  /\ ctor' = "threw"
  /\ args' = [url |-> u, protocols |-> ps]
  /\ signal' = sig
  /\ UNCHANGED << abortListener, cancelRid, create, connection, closed, closeSent,
                  earlyClose, calls, streamVars, clockVars, closeLog >>

\* op_ws_check_permission_and_cancel_handle throws (permission denied)
ConstructThrowsPermission(u, ps, sig) ==
  /\ ctor = "new"
  /\ UrlSchemeOk(u) /\ UrlFragmentOk(u) /\ ProtocolsUnique(ps)
  /\ ctor' = "threw"
  /\ args' = [url |-> u, protocols |-> ps]
  /\ signal' = sig
  /\ calls' = Called("cancelHandle")
  /\ UNCHANGED << abortListener, cancelRid, create, connection, closed, closeSent,
                  earlyClose, streamVars, clockVars, closeLog >>

ConstructAborted_KeepsHandle(u, ps, sig) ==
  /\ ctor = "new"
  /\ sig = "aborted"
  /\ UrlSchemeOk(u) /\ UrlFragmentOk(u) /\ ProtocolsUnique(ps)
  /\ ctor' = "constructed"
  /\ args' = [url |-> u, protocols |-> ps]
  /\ signal' = "aborted"
  /\ calls' = Called("cancelHandle")
  /\ cancelRid' = "open"
  /\ connection' = DeferredReject(connection, AbortReason)
  /\ closed' = DeferredReject(closed, AbortReason)
  /\ UNCHANGED << abortListener, create, closeSent, earlyClose, streamVars, clockVars,
                  closeLog >>

\* options.signal is already aborted: the cancel handle is closed, both futures reject
ConstructAborted(u, ps, sig) ==
  /\ ctor = "new"
  /\ sig = "aborted"
  /\ UrlSchemeOk(u) /\ UrlFragmentOk(u) /\ ProtocolsUnique(ps)
  /\ ctor' = "constructed"
  /\ args' = [url |-> u, protocols |-> ps]
  /\ signal' = "aborted"
  /\ calls' = Called("cancelHandle")
  /\ cancelRid' = "closed"
  /\ connection' = DeferredReject(connection, AbortReason)
  /\ closed' = DeferredReject(closed, AbortReason)
  /\ UNCHANGED << abortListener, create, closeSent, earlyClose, streamVars, clockVars,
                  closeLog >>

\* the abort algorithm is added (when a signal is given) and op_ws_create is issued
ConstructConnect(u, ps, sig) ==
  /\ ctor = "new"
  /\ sig \in {"none", "idle"}
  /\ UrlSchemeOk(u) /\ UrlFragmentOk(u) /\ ProtocolsUnique(ps)
  /\ ctor' = "constructed"
  /\ args' = [url |-> u, protocols |-> ps]
  /\ signal' = sig
  /\ abortListener' = (sig = "idle")
  /\ cancelRid' = "open"
  /\ calls' = [calls EXCEPT !.cancelHandle = @ + 1, !.create = @ + 1]
  /\ create' = "pending"
  /\ UNCHANGED << connection, closed, closeSent, earlyClose, streamVars, clockVars,
                  closeLog >>

\* the signal fires while its abort algorithm is registered: core.close(cancelRid)
SignalAbort ==
  /\ signal = "idle"
  /\ abortListener
  /\ signal' = "aborted"
  /\ cancelRid' = "closed"
  /\ UNCHANGED << ctor, args, abortListener, create, connection, closed, closeSent,
                  earlyClose, calls, streamVars, clockVars, closeLog >>

\* op_ws_create resolves (it was not cancelled through the cancel handle) and no
\* close() came while connecting: the streams are built
CreateResolveOpen ==
  /\ create = "pending"
  /\ cancelRid = "open"
  /\ ~earlyClose
  /\ create' = "resolved"
  /\ abortListener' = FALSE
  /\ rid' = TRUE
  /\ handle' = "open"
  /\ readable' = "readable"
  /\ writable' = "writable"
  /\ UNCHANGED sink
  /\ connection' = DeferredResolve(connection, ConnectionVal)
  /\ UNCHANGED << ctor, args, signal, cancelRid, closed, closeSent, earlyClose,
                  releaseCalls, calls, early, closeOps, pulls, closedThen, enqueued,
                  readCount, messages, nEvents, pings, clockVars, lastEvent, closeLog >>

\* op_ws_create resolves after an early close(): op_ws_close(create.rid) is issued
CreateResolveEarlyClose ==
  /\ create = "pending"
  /\ cancelRid = "open"
  /\ earlyClose
  /\ create' = "resolved"
  /\ abortListener' = FALSE
  /\ handle' = "open"
  /\ calls' = Called("close")
  /\ early' = "closing"
  /\ UNCHANGED << ctor, args, signal, cancelRid, connection, closed, closeSent,
                  earlyClose, rid, releaseCalls, closeOps, pulls, readable, writable, sink,
                  closedThen, enqueued, readCount, messages, nEvents, pings,
                  clockVars, lastEvent, closeLog >>

CreateReject_RawFailure ==
  /\ create = "pending"
  /\ create' = "rejected"
  /\ cancelRid' = "closed"
  /\ connection' = DeferredReject(connection, IF cancelRid = "closed" THEN Interrupted
                                              ELSE ConnectFailure)
  /\ closed' = DeferredReject(closed, IF cancelRid = "closed" THEN Interrupted
                                      ELSE ConnectFailure)
  /\ UNCHANGED << ctor, args, signal, abortListener, closeSent, earlyClose, calls,
                  streamVars, clockVars, closeLog >>

\* op_ws_create rejects: with Interrupted after the cancel handle was closed by the
\* abort algorithm, with the transport's own failure otherwise
CreateReject ==
  /\ create = "pending"
  /\ create' = "rejected"
  /\ IF cancelRid = "closed"
       THEN /\ connection' = DeferredReject(connection, AbortReason)
            /\ closed' = DeferredReject(closed, AbortReason)
            /\ UNCHANGED cancelRid
       ELSE /\ cancelRid' = "closed"
            /\ connection' = DeferredReject(connection, ConnectFailure)
            /\ closed' = DeferredReject(closed, ConnectFailure)
  /\ UNCHANGED << ctor, args, signal, abortListener, closeSent, earlyClose, calls,
                  streamVars, clockVars, closeLog >>

\* ------------------------------------------------------ early-close branch
\* op_ws_close(create.rid) resolved: the drain loop issues its first op_ws_next_event
EarlyCloseSent ==
  /\ early = "closing"
  /\ early' = "draining"
  /\ UNCHANGED << ctor, args, signal, abortListener, cancelRid, create, connection,
                  closed, closeSent, earlyClose, rid, handle, releaseCalls, calls, closeOps,
                  pulls, readable, writable, sink, closedThen, enqueued, readCount,
                  messages, nEvents, pings, clockVars, lastEvent, closeLog >>

\* op_ws_close(create.rid) rejected: both futures reject with the NetworkError
EarlyCloseFailed ==
  /\ early = "closing"
  /\ early' = "done"
  /\ connection' = DeferredReject(connection, NetworkError)
  /\ closed' = DeferredReject(closed, NetworkError)
  /\ UNCHANGED << ctor, args, signal, abortListener, cancelRid, create, closeSent,
                  earlyClose, rid, handle, releaseCalls, calls, closeOps, pulls,
                  readable, writable, sink, closedThen, enqueued, readCount, messages,
                  nEvents, pings, clockVars, lastEvent, closeLog >>

\* one iteration of the drain loop: only kind > 6 leaves it; every other event,
\* a Ping included, is dropped and the next event is requested
EarlyDrainEvent(e) ==
  /\ early = "draining"
  /\ nEvents < MaxEvents
  /\ nEvents' = nEvents + 1
  /\ lastEvent' = e
  /\ pings' = IF e.kind = 3 THEN pings + 1 ELSE pings
  /\ messages' = IF e.kind \in {0, 1} THEN messages + 1 ELSE messages
  /\ IF e.kind > 6
       THEN /\ early' = "done"
            /\ connection' = DeferredReject(connection, NetworkError)
            /\ closed' = DeferredReject(closed, NetworkError)
       ELSE UNCHANGED << early, connection, closed >>
  /\ UNCHANGED << ctor, args, signal, abortListener, cancelRid, create, closeSent,
                  earlyClose, rid, handle, releaseCalls, calls, closeOps, pulls, readable,
                  writable, sink, closedThen, enqueued, readCount, clockVars, closeLog >>

\* ----------------------------------------------------------------- close()
\* close(closeInfo) fails validation: the exception leaves before any branch
CloseThrowsValidation(info) ==
  /\ ctor = "constructed"
  /\ Len(closeLog) < MaxCloseCalls
  /\ CloseThrows(info)
  /\ closeLog' = Append(closeLog, [info |-> info, threw |-> TRUE])
  /\ UNCHANGED << ctor, args, signal, abortListener, cancelRid, create, connection,
                  closed, closeSent, earlyClose, calls, streamVars, clockVars >>

\* close(closeInfo) while this[_connection] is pending: only the flag is set
CloseWhileConnecting(info) ==
  /\ ctor = "constructed"
  /\ Len(closeLog) < MaxCloseCalls
  /\ ~CloseThrows(info)
  /\ connection.state = "pending"
  /\ closeLog' = Append(closeLog, [info |-> info, threw |-> FALSE])
  /\ earlyClose' = TRUE
  /\ UNCHANGED << ctor, args, signal, abortListener, cancelRid, create, connection,
                  closed, closeSent, calls, streamVars, clockVars >>

\* close(closeInfo) while this[_closed] is pending: op_ws_close(rid, code, reason)
CloseSend(info) ==
  /\ ctor = "constructed"
  /\ Len(closeLog) < MaxCloseCalls
  /\ ~CloseThrows(info)
  /\ connection.state # "pending"
  /\ closed.state = "pending"
  /\ closeLog' = Append(closeLog, [info |-> info, threw |-> FALSE])
  /\ calls' = Called("close")
  /\ closeOps' = [closeOps EXCEPT !.pending = @ + 1]
  /\ UNCHANGED << ctor, args, signal, abortListener, cancelRid, create, connection,
                  closed, closeSent, earlyClose, rid, handle, releaseCalls, early,
                  pulls, readable, writable, sink, closedThen, enqueued, readCount,
                  messages, nEvents, pings, clockVars, lastEvent >>

\* close(closeInfo) once this[_closed] is settled: neither branch is taken
CloseNoop(info) ==
  /\ ctor = "constructed"
  /\ Len(closeLog) < MaxCloseCalls
  /\ ~CloseThrows(info)
  /\ connection.state # "pending"
  /\ closed.state # "pending"
  /\ closeLog' = Append(closeLog, [info |-> info, threw |-> FALSE])
  /\ UNCHANGED << ctor, args, signal, abortListener, cancelRid, create, connection,
                  closed, closeSent, earlyClose, calls, streamVars, clockVars >>

\* op_ws_close(rid, ...) resolved: setTimeout(..., 0) schedules the timestamp
CloseOpResolved ==
  /\ closeOps.pending > 0
  /\ closeOps' = [pending |-> closeOps.pending - 1, timers |-> closeOps.timers + 1]
  /\ UNCHANGED << ctor, args, signal, abortListener, cancelRid, create, connection,
                  closed, closeSent, earlyClose, rid, handle, releaseCalls, calls,
                  early, pulls, readable, writable, sink, closedThen, enqueued, readCount,
                  messages, nEvents, pings, clockVars, lastEvent, closeLog >>

\* op_ws_close(rid, ...) rejected: this[_rid] && core.tryClose(rid); closed rejects
CloseOpRejected ==
  /\ closeOps.pending > 0
  /\ closeOps' = [closeOps EXCEPT !.pending = @ - 1]
  /\ handle' = IF rid THEN TryClose(handle) ELSE handle
  /\ releaseCalls' = IF rid THEN releaseCalls + 1 ELSE releaseCalls
  /\ closed' = DeferredReject(closed, CloseSendFailure)
  /\ UNCHANGED << ctor, args, signal, abortListener, cancelRid, create, connection,
                  closeSent, earlyClose, rid, calls, early, pulls, readable, writable, sink,
                  closedThen, enqueued, readCount, messages, nEvents, pings,
                  clockVars, lastEvent, closeLog >>

\* the timer callback: this[_closeSent].resolve(new Date().getTime()); the reaction
\* registered in start() follows on the first resolution and starts a pump
\* invocation if this[_closed] is still pending
CloseSentTimer ==
  /\ closeOps.timers > 0
  /\ closeOps' = [closeOps EXCEPT !.timers = @ - 1]
  /\ closeSent' = DeferredResolve(closeSent, Val("time", now, ""))
  /\ IF closeSent.state = "pending" /\ closed.state = "pending"
       THEN pulls' = [pulls EXCEPT !["closeSent"] = NextEventRequest(handle)]
       ELSE UNCHANGED pulls
  /\ UNCHANGED << ctor, args, signal, abortListener, cancelRid, create, connection,
                  closed, earlyClose, rid, handle, releaseCalls, calls, early, readable,
                  writable, sink, closedThen, enqueued, readCount, messages, nEvents,
                  pings, clockVars, lastEvent, closeLog >>

\* -------------------------------------------------------------- event pump
\* default queuing strategy of new ReadableStream({...}): one item
HighWaterMark == 1

\* lines 295-298: the pump invocation after the switch; the left operand
\* new Date().getTime() is read before the await of this[_closeSent].promise
AfterSwitch(value, closedNext) ==
  IF closeSent.state = "fulfilled" /\ closedNext.state = "pending"
    THEN [pc |-> "awaitTs", value |-> value,
          late |-> ~(now - closeSent.value.code <= CLOSE_RESPONSE_TIMEOUT)]
    ELSE IdlePull

\* the reaction start() registered on this.closed runs once closed is resolved
ClosedThenAfter(closedNext) ==
  IF closed.state = "pending" /\ closedNext.how = "resolved" THEN "queued" ELSE closedThen

\* a rejected pull of the stream errors its controller; controller.error is a
\* no-op unless the stream is readable.  The stream reacts to the rejection one
\* job after the invocation rejected, so a reaction on this.closed that is
\* already queued runs first and closes the stream
ReadableAfterReject(p) ==
  IF p = "stream" /\ readable = "readable" /\ closedThen # "queued" THEN "errored"
  ELSE readable

\* the stream calls pull when it is readable, no pull is running and the queue
\* is below the high-water mark
PullStart ==
  /\ readable = "readable"
  /\ pulls["stream"].pc = "idle"
  /\ Len(enqueued) - readCount < HighWaterMark
  /\ pulls' = [pulls EXCEPT !["stream"] = NextEventRequest(handle)]
  /\ UNCHANGED << ctor, args, signal, abortListener, cancelRid, create, connection,
                  closed, closeSent, earlyClose, rid, handle, releaseCalls, calls, early,
                  closeOps, readable, writable, sink, closedThen, enqueued, readCount,
                  messages, nEvents, pings, clockVars, lastEvent, closeLog >>

PullMessage_CloseSentDrops(p, e) ==
  /\ pulls[p].pc = "awaitEvent"
  /\ nEvents < MaxEvents
  /\ e.kind \in {0, 1}
  /\ nEvents' = nEvents + 1
  /\ lastEvent' = e
  /\ messages' = messages + 1
  /\ enqueued' = IF p = "stream" /\ readable = "readable" THEN Append(enqueued, e.value)
                 ELSE enqueued
  /\ pulls' = [pulls EXCEPT ![p] = AfterSwitch(e.value, closed)]
  /\ UNCHANGED << ctor, args, signal, abortListener, cancelRid, create, connection,
                  closed, closeSent, earlyClose, rid, handle, releaseCalls, calls,
                  early, closeOps, readable, writable, sink, closedThen, readCount,
                  pings, clockVars, closeLog >>

\* case 0, case 1: controller.enqueue(value), which throws unless the stream is
\* readable; then the timeout check
PullMessage(p, e) ==
  /\ pulls[p].pc = "awaitEvent"
  /\ nEvents < MaxEvents
  /\ e.kind \in {0, 1}
  /\ nEvents' = nEvents + 1
  /\ lastEvent' = e
  /\ messages' = messages + 1
  /\ IF readable = "readable"
       THEN /\ enqueued' = Append(enqueued, e.value)
            /\ pulls' = [pulls EXCEPT ![p] = AfterSwitch(e.value, closed)]
            /\ UNCHANGED readable
       ELSE /\ pulls' = [pulls EXCEPT ![p] = IdlePull]
            /\ readable' = ReadableAfterReject(p)
            /\ UNCHANGED enqueued
  /\ UNCHANGED << ctor, args, signal, abortListener, cancelRid, create, connection,
                  closed, closeSent, earlyClose, rid, handle, releaseCalls, calls,
                  early, closeOps, writable, sink, closedThen, readCount, pings, clockVars,
                  closeLog >>

\* case 5: closed rejects, the controller is errored, the handle is released
PullError(p, e) ==
  /\ pulls[p].pc = "awaitEvent"
  /\ nEvents < MaxEvents
  /\ e.kind = 5
  /\ nEvents' = nEvents + 1
  /\ lastEvent' = e
  /\ closed' = DeferredReject(closed, ErrorVal(e.value.s))
  /\ readable' = IF readable = "readable" THEN "errored" ELSE readable
  /\ handle' = TryClose(handle)
  /\ releaseCalls' = releaseCalls + 1
  /\ pulls' = [pulls EXCEPT ![p] = AfterSwitch(e.value, closed')]
  /\ UNCHANGED << ctor, args, signal, abortListener, cancelRid, create, connection,
                  closeSent, earlyClose, rid, calls, early, closeOps, writable, sink,
                  closedThen, enqueued, readCount, messages, pings, clockVars,
                  closeLog >>

\* case 3: op_ws_send(rid, {kind: "pong"}) is issued and awaited
PullPing(p, e) ==
  /\ pulls[p].pc = "awaitEvent"
  /\ nEvents < MaxEvents
  /\ e.kind = 3
  /\ nEvents' = nEvents + 1
  /\ lastEvent' = e
  /\ pings' = pings + 1
  /\ calls' = Called("pong")
  /\ pulls' = [pulls EXCEPT ![p] = [pc |-> "awaitPong", value |-> e.value, late |-> FALSE]]
  /\ UNCHANGED << ctor, args, signal, abortListener, cancelRid, create, connection,
                  closed, closeSent, earlyClose, rid, handle, releaseCalls, early,
                  closeOps, readable, writable, sink, closedThen, enqueued, readCount,
                  messages, clockVars, closeLog >>

\* the pong was sent: await pull(controller) requests the next event.  When that
\* inner invocation returns, closeSent is not fulfilled or closed is settled, so
\* the check of the outer invocation, resumed in the same turn, is false: the
\* nesting is not kept as state
PullPongSent(p) ==
  /\ pulls[p].pc = "awaitPong"
  /\ pulls' = [pulls EXCEPT ![p] = NextEventRequest(handle)]
  /\ UNCHANGED << ctor, args, signal, abortListener, cancelRid, create, connection,
                  closed, closeSent, earlyClose, rid, handle, releaseCalls, calls, early,
                  closeOps, readable, writable, sink, closedThen, enqueued, readCount,
                  messages, nEvents, pings, clockVars, lastEvent, closeLog >>

\* op_ws_send rejected: the pump invocation rejects
PullPongFailed(p) ==
  /\ pulls[p].pc = "awaitPong"
  /\ pulls' = [pulls EXCEPT ![p] = IdlePull]
  /\ readable' = ReadableAfterReject(p)
  /\ UNCHANGED << ctor, args, signal, abortListener, cancelRid, create, connection,
                  closed, closeSent, earlyClose, rid, handle, releaseCalls, calls,
                  early, closeOps, writable, sink, closedThen, enqueued, readCount,
                  messages, nEvents, pings, clockVars, lastEvent, closeLog >>

\* case 2: nothing but the timeout check
PullPong(p, e) ==
  /\ pulls[p].pc = "awaitEvent"
  /\ nEvents < MaxEvents
  /\ e.kind = 2
  /\ nEvents' = nEvents + 1
  /\ lastEvent' = e
  /\ pulls' = [pulls EXCEPT ![p] = AfterSwitch(e.value, closed)]
  /\ UNCHANGED << ctor, args, signal, abortListener, cancelRid, create, connection,
                  closed, closeSent, earlyClose, rid, handle, releaseCalls, calls,
                  early, closeOps, readable, writable, sink, closedThen, enqueued,
                  readCount, messages, pings, clockVars, closeLog >>

PullTerminal_DefaultOnly(p, e) ==
  /\ pulls[p].pc = "awaitEvent"
  /\ nEvents < MaxEvents
  /\ e.kind \notin {0, 1, 2, 3, 5}
  /\ nEvents' = nEvents + 1
  /\ lastEvent' = e
  /\ closed' = DeferredResolve(closed, CloseInfoVal(e.kind, e.value.s))
  /\ closedThen' = ClosedThenAfter(closed')
  /\ handle' = TryClose(handle)
  /\ releaseCalls' = releaseCalls + 1
  /\ pulls' = [pulls EXCEPT ![p] = AfterSwitch(e.value, closed')]
  /\ UNCHANGED << ctor, args, signal, abortListener, cancelRid, create, connection,
                  closeSent, earlyClose, rid, calls, early, closeOps, readable,
                  writable, sink, enqueued, readCount, messages, pings, clockVars,
                  closeLog >>

\* case 6 and default: closed resolves with undefined or {code: kind, reason: value}
\* and the handle is released
PullTerminal(p, e) ==
  /\ pulls[p].pc = "awaitEvent"
  /\ nEvents < MaxEvents
  /\ e.kind \notin {0, 1, 2, 3, 5}
  /\ nEvents' = nEvents + 1
  /\ lastEvent' = e
  /\ closed' = IF e.kind = 6 THEN DeferredResolve(closed, Undefined)
               ELSE DeferredResolve(closed, CloseInfoVal(e.kind, e.value.s))
  /\ closedThen' = ClosedThenAfter(closed')
  /\ handle' = TryClose(handle)
  /\ releaseCalls' = releaseCalls + 1
  /\ pulls' = [pulls EXCEPT ![p] = AfterSwitch(e.value, closed')]
  /\ UNCHANGED << ctor, args, signal, abortListener, cancelRid, create, connection,
                  closeSent, earlyClose, rid, calls, early, closeOps, readable,
                  writable, sink, enqueued, readCount, messages, pings, clockVars,
                  closeLog >>

\* lines 299-307 after the await: within the timeout the invocation returns
\* pull(controller); past it closed resolves with the event's value and the
\* handle is released
PullTimeoutCheck(p) ==
  /\ pulls[p].pc = "awaitTs"
  /\ IF ~pulls[p].late
       THEN /\ pulls' = [pulls EXCEPT ![p] = NextEventRequest(handle)]
            /\ UNCHANGED << closed, closedThen, handle, releaseCalls >>
       ELSE /\ closed' = DeferredResolve(closed, pulls[p].value)
            /\ closedThen' = ClosedThenAfter(closed')
            /\ handle' = TryClose(handle)
            /\ releaseCalls' = releaseCalls + 1
            /\ pulls' = [pulls EXCEPT ![p] = IdlePull]
  /\ UNCHANGED << ctor, args, signal, abortListener, cancelRid, create, connection,
                  closeSent, earlyClose, rid, calls, early, closeOps, readable, writable, sink,
                  enqueued, readCount, messages, nEvents, pings, clockVars, lastEvent,
                  closeLog >>

\* op_ws_next_event rejects: the handle was released before or while it waited
PullNextEventRejected(p) ==
  /\ \/ pulls[p].pc = "awaitFail"
     \/ pulls[p].pc = "awaitEvent" /\ handle = "released"
  /\ pulls' = [pulls EXCEPT ![p] = IdlePull]
  /\ readable' = ReadableAfterReject(p)
  /\ UNCHANGED << ctor, args, signal, abortListener, cancelRid, create, connection,
                  closed, closeSent, earlyClose, rid, handle, releaseCalls, calls,
                  early, closeOps, writable, sink, closedThen, enqueued, readCount,
                  messages, nEvents, pings, clockVars, lastEvent, closeLog >>

\* the reaction on this.closed: controller.close() and writableStreamClose(writable),
\* each ignored when the stream is no longer open.  The sink's close() finds
\* this[_closed] settled, so its this.close({}) does nothing and its await of
\* this.closed returns at once; it runs after a write still in flight
ClosedReaction ==
  /\ closedThen = "queued"
  /\ closedThen' = "done"
  /\ readable' = IF readable = "readable" THEN "closed" ELSE readable
  /\ writable' = IF writable # "writable" THEN writable
                 ELSE IF sink = "write" THEN "closing" ELSE "closed"
  /\ UNCHANGED sink
  /\ UNCHANGED << ctor, args, signal, abortListener, cancelRid, create, connection,
                  closed, closeSent, earlyClose, rid, handle, releaseCalls, calls,
                  early, closeOps, pulls, enqueued, readCount, messages, nEvents,
                  pings, clockVars, lastEvent, closeLog >>

\* the consumer reads one item of the inbound stream
ConsumerRead ==
  /\ readable \in {"readable", "closed"}
  /\ readCount < Len(enqueued)
  /\ readCount' = readCount + 1
  /\ UNCHANGED << ctor, args, signal, abortListener, cancelRid, create, connection,
                  closed, closeSent, earlyClose, rid, handle, releaseCalls, calls,
                  early, closeOps, pulls, readable, writable, sink, closedThen, enqueued,
                  messages, nEvents, pings, clockVars, lastEvent, closeLog >>

\* ------------------------------------------------- outbound sink and cancel
Chunks == {"string", "bytes", "other"}
DefaultInfo == [code |-> NoCode, reason |-> EmptyReason]
\* reasons handed to abort(reason) and cancel(reason)
StreamReasons ==
  { DefaultInfo,
    [code |-> NoCode, reason |-> Reason(124, 1)],
    [code |-> 4000, reason |-> EmptyReason],
    [code |-> 2000, reason |-> EmptyReason] }

\* reason?.code !== undefined ? reason : {}
StreamCloseArg(reason) == IF reason.code # NoCode THEN reason ELSE DefaultInfo

\* try { this.close(arg) } catch (_) { this.close() }: the close() invocations made
StreamCloseLog(reason) ==
  IF CloseThrows(StreamCloseArg(reason))
    THEN << [info |-> StreamCloseArg(reason), threw |-> TRUE],
            [info |-> DefaultInfo, threw |-> FALSE] >>
    ELSE << [info |-> StreamCloseArg(reason), threw |-> FALSE] >>

\* the close() that went through, called from a stream of the resolved connection:
\* op_ws_close is issued while this[_closed] is pending, nothing happens otherwise
CloseFromStream(reason) ==
  /\ Len(closeLog) + Len(StreamCloseLog(reason)) <= MaxCloseCalls
  /\ closeLog' = closeLog \o StreamCloseLog(reason)
  /\ IF closed.state = "pending"
       THEN /\ calls' = Called("close")
            /\ closeOps' = [closeOps EXCEPT !.pending = @ + 1]
       ELSE UNCHANGED << calls, closeOps >>

\* write(chunk): op_ws_send(this[_rid], ...) for a string or a Uint8Array, whatever
\* the state of the instance; a TypeError otherwise, which errors the stream
SinkWrite(chunk) ==
  /\ writable = "writable"
  /\ sink = "idle"
  /\ calls.send < MaxWrites
  /\ IF chunk = "other"
       THEN /\ writable' = "errored"
            /\ UNCHANGED << sink, calls >>
       ELSE /\ sink' = "write"
            /\ calls' = Called("send")
            /\ UNCHANGED writable
  /\ UNCHANGED << ctor, args, signal, abortListener, cancelRid, create, connection,
                  closed, closeSent, earlyClose, rid, handle, releaseCalls, early,
                  closeOps, pulls, readable, closedThen, enqueued, readCount,
                  messages, nEvents, pings, clockVars, lastEvent, closeLog >>

\* op_ws_send resolved: the write completes, and a close requested meanwhile follows
SinkWriteResolved ==
  /\ sink = "write"
  /\ sink' = "idle"
  /\ writable' = IF writable = "closing" THEN "closed" ELSE writable
  /\ UNCHANGED << ctor, args, signal, abortListener, cancelRid, create, connection,
                  closed, closeSent, earlyClose, rid, handle, releaseCalls, calls,
                  early, closeOps, pulls, readable, closedThen, enqueued, readCount,
                  messages, nEvents, pings, clockVars, lastEvent, closeLog >>

\* op_ws_send rejected: the write fails and the stream is errored
SinkWriteRejected ==
  /\ sink = "write"
  /\ sink' = "idle"
  /\ writable' = "errored"
  /\ UNCHANGED << ctor, args, signal, abortListener, cancelRid, create, connection,
                  closed, closeSent, earlyClose, rid, handle, releaseCalls, calls,
                  early, closeOps, pulls, readable, closedThen, enqueued, readCount,
                  messages, nEvents, pings, clockVars, lastEvent, closeLog >>

\* the writer closes the stream: the sink's close() is called without a reason,
\* calls this.close({}) and awaits this.closed
SinkClose ==
  /\ writable = "writable"
  /\ sink = "idle"
  /\ CloseFromStream(DefaultInfo)
  /\ sink' = "close"
  /\ writable' = "closing"
  /\ UNCHANGED << ctor, args, signal, abortListener, cancelRid, create, connection,
                  closed, closeSent, earlyClose, rid, handle, releaseCalls, early,
                  pulls, readable, closedThen, enqueued, readCount, messages,
                  nEvents, pings, clockVars, lastEvent >>

\* the writer aborts the stream: the sink's abort(reason) calls this.close with the
\* reason's close info, or without any if that throws, and awaits this.closed
SinkAbort(reason) ==
  /\ writable = "writable"
  /\ sink = "idle"
  /\ CloseFromStream(reason)
  /\ sink' = "abort"
  /\ writable' = "errored"
  /\ UNCHANGED << ctor, args, signal, abortListener, cancelRid, create, connection,
                  closed, closeSent, earlyClose, rid, handle, releaseCalls, early,
                  pulls, readable, closedThen, enqueued, readCount, messages,
                  nEvents, pings, clockVars, lastEvent >>

SinkCompleted_NoAwait ==
  /\ sink \in {"close", "abort"}
  /\ sink' = "idle"
  /\ writable' = IF writable = "closing" THEN "closed" ELSE writable
  /\ UNCHANGED << ctor, args, signal, abortListener, cancelRid, create, connection,
                  closed, closeSent, earlyClose, rid, handle, releaseCalls, calls,
                  early, closeOps, pulls, readable, closedThen, enqueued, readCount,
                  messages, nEvents, pings, clockVars, lastEvent, closeLog >>

\* await this.closed returned or threw: the sink's close() or abort() completes
SinkCompleted ==
  /\ sink \in {"close", "abort"}
  /\ closed.state # "pending"
  /\ sink' = "idle"
  /\ writable' = IF writable = "closing"
                   THEN IF closed.how = "resolved" THEN "closed" ELSE "errored"
                   ELSE writable
  /\ UNCHANGED << ctor, args, signal, abortListener, cancelRid, create, connection,
                  closed, closeSent, earlyClose, rid, handle, releaseCalls, calls,
                  early, closeOps, pulls, readable, closedThen, enqueued, readCount,
                  messages, nEvents, pings, clockVars, lastEvent, closeLog >>

\* the consumer cancels the inbound stream: the stream is closed at once and
\* cancel(reason) calls this.close like the sink does
ReadableCancel(reason) ==
  /\ readable = "readable"
  /\ CloseFromStream(reason)
  /\ readable' = "closed"
  /\ UNCHANGED << ctor, args, signal, abortListener, cancelRid, create, connection,
                  closed, closeSent, earlyClose, rid, handle, releaseCalls, early,
                  pulls, writable, sink, closedThen, enqueued, readCount, messages,
                  nEvents, pings, clockVars, lastEvent >>

\* time passes; the clock is read only for the close-sent timestamp and for the
\* elapsed time since it, so it is advanced from the moment the timer is scheduled
Tick ==
  /\ closed.state = "pending"
  /\ closeOps.timers > 0 \/ closeSent.state = "fulfilled"
  /\ ticks + 1 < Len(ClockReadings)
  /\ ticks' = ticks + 1
  /\ now' = ClockReadings[ticks' + 1]
  /\ UNCHANGED << ctor, args, signal, abortListener, cancelRid, create, connection,
                  closed, closeSent, earlyClose, calls, streamVars, closeLog >>

\* ------------------------------------------------------------ specification
\* the instance is driven with few inputs; a close() that fails validation changes
\* nothing of the instance, so Spec leaves it to SpecValidation below, which draws
\* the inputs of the validation from wider sets
RunProtocolLists == { <<>>, <<p_Chat, p_chat>> }
RunCloseInfos == { [code |-> NoCode, reason |-> EmptyReason] }
RunSignals == {"idle", "aborted"}
Signals == {"none", "idle", "aborted"}

Construct(lists, signals) ==
  \E u \in Urls, ps \in lists, sig \in signals :
    \/ ConstructThrowsValidation(u, ps, sig)
    \/ ConstructThrowsPermission(u, ps, sig)
    \/ ConstructAborted(u, ps, sig)
    \/ ConstructConnect(u, ps, sig)

Connect ==
  \/ SignalAbort
  \/ CreateResolveOpen
  \/ CreateResolveEarlyClose
  \/ CreateReject

EarlyClose ==
  \/ EarlyCloseSent
  \/ EarlyCloseFailed
  \/ \E e \in Events(messages) : EarlyDrainEvent(e)

CloseAccepted(infos) ==
  \E info \in infos :
    \/ CloseWhileConnecting(info)
    \/ CloseSend(info)
    \/ CloseNoop(info)

Close(infos) ==
  \/ \E info \in infos : CloseThrowsValidation(info)
  \/ CloseAccepted(infos)

CloseOps ==
  \/ CloseOpResolved
  \/ CloseOpRejected
  \/ CloseSentTimer

Pump ==
  \/ PullStart
  \/ \E p \in Pumps :
       \/ \E e \in Events(messages) :
            \/ PullMessage(p, e)
            \/ PullError(p, e)
            \/ PullPing(p, e)
            \/ PullPong(p, e)
            \/ PullTerminal(p, e)
       \/ PullPongSent(p)
       \/ PullPongFailed(p)
       \/ PullTimeoutCheck(p)
       \/ PullNextEventRejected(p)
  \/ ClosedReaction
  \/ ConsumerRead

Next ==
  \/ Construct(RunProtocolLists, RunSignals)
  \/ Connect
  \/ EarlyClose
  \/ CloseAccepted(RunCloseInfos)
  \/ CloseOps
  \/ Pump
  \/ Tick

Spec == Init /\ [][Next]_vars

\* the constructor and close() over the wide input sets, with the connect and the
\* close operations that follow them
NextValidation ==
  \/ Construct(ProtocolLists, Signals)
  \/ Connect
  \/ Close(CloseInfos)
  \/ CloseOps

SpecValidation == Init /\ [][NextValidation]_vars

\* the streams of the connection used by a writer and a consumer, through which
\* every close() is made here; the clock stands still, so the close-response
\* timeout never expires
Sink ==
  \/ \E chunk \in Chunks : SinkWrite(chunk)
  \/ SinkWriteResolved
  \/ SinkWriteRejected
  \/ SinkClose
  \/ \E reason \in StreamReasons : SinkAbort(reason)
  \/ SinkCompleted

NextStreams ==
  \/ Construct(RunProtocolLists, RunSignals)
  \/ SignalAbort
  \/ CreateResolveOpen
  \/ CreateReject
  \/ CloseOps
  \/ Pump
  \/ Sink
  \/ \E reason \in StreamReasons : ReadableCancel(reason)

SpecStreams == Init /\ [][NextStreams]_vars

\* what the event loop guarantees: timers fire, transport calls the instance
\* issued complete, continuations run and time passes.  Nothing obliges the
\* peer to send an event, the consumer to read or the caller to call close()
FairSpec ==
  /\ Spec
  /\ WF_vars(CloseOpResolved \/ CloseOpRejected)
  /\ WF_vars(CloseSentTimer)
  /\ WF_vars(PullStart)
  /\ WF_vars(\E p \in Pumps : PullPongSent(p) \/ PullPongFailed(p))
  /\ WF_vars(\E p \in Pumps : PullTimeoutCheck(p))
  /\ WF_vars(\E p \in Pumps : PullNextEventRejected(p))
  /\ WF_vars(ClosedReaction)
  /\ WF_vars(EarlyCloseSent \/ EarlyCloseFailed)
  /\ WF_vars(Tick)

\* ------------------------------------------------------------------ claims
\* everything of the instance but the log of close() invocations
InstanceState ==
  << ctor, args, signal, abortListener, cancelRid, create, connection, closed,
     closeSent, earlyClose, calls, streamVars, clockVars >>

Rejected(v) == [state |-> "fulfilled", how |-> "rejected", value |-> v]
Elapsed == now - closeSent.value.code
NonTerminalKinds == {0, 1, 2, 3}
\* pump invocation p receives the event of this step
PumpHandles(p) ==
  /\ pulls[p].pc = "awaitEvent"
  /\ nEvents' = nEvents + 1
  /\ pulls'[p] # pulls[p]
\* this step is a close() invocation; LastCall is its entry in the log
CloseCalled == Len(closeLog') = Len(closeLog) + 1
LastCall == closeLog'[Len(closeLog')]

\* C1: connection and closed each settle exactly once: once a future has left
\* "pending", no step changes its outcome, whichever terminating path runs next
C1_SettleOnce ==
  [][ /\ (connection.state # "pending" => connection' = connection)
      /\ (closed.state # "pending" => closed' = closed) ]_vars

\* C1 witness: the Error path rejected closed and a terminal event was handled
\* afterwards by the other pump invocation
C1_Witness ==
  /\ closed = Rejected(ErrorVal("boom"))
  /\ lastEvent = ClosedEvent
  /\ releaseCalls = 2

\* C2: once connect succeeded the handle is released exactly once: never two
\* release calls, and never zero once closed has settled
C2_ReleasedExactlyOnce ==
  /\ releaseCalls <= 1
  /\ (create = "resolved" /\ closed.state # "pending") => releaseCalls = 1

\* C3: once the local close frame was sent (op_ws_close resolved and the
\* timestamp is scheduled), closed eventually settles, also when the peer
\* sends nothing any more
C3_CloseSentLeadsToClosed ==
  (closeOps.timers > 0) ~> (closed.state # "pending")

\* C4: with the close-sent timestamp recorded and closed pending, a non-terminal
\* event handled at an elapsed time of at most 4999 ms leaves closed pending and
\* the pump goes on to the next event; one handled after more than 5000 ms
\* commits the pump to the forced closure with that event's value, and the
\* forced closure settles closed and releases the handle.  Stated for the
\* instance whose inbound stream is still readable
C4_TimeoutBoundary ==
  [][ \A p \in Pumps :
        /\ ( /\ PumpHandles(p)
             /\ closeSent.state = "fulfilled"
             /\ closed.state = "pending"
             /\ readable = "readable"
             /\ lastEvent'.kind \in NonTerminalKinds )
           => /\ Elapsed <= CLOSE_RESPONSE_TIMEOUT - 1
                   => /\ closed'.state = "pending"
                      /\ \/ pulls'[p].pc = "awaitPong"
                         \/ pulls'[p].pc = "awaitTs" /\ ~pulls'[p].late
              /\ Elapsed > CLOSE_RESPONSE_TIMEOUT
                   => /\ pulls'[p].pc = "awaitTs"
                      /\ pulls'[p].late
                      /\ pulls'[p].value = lastEvent'.value
        /\ (pulls[p].pc = "awaitTs" /\ pulls'[p] # pulls[p])
           => IF pulls[p].late
                THEN /\ closed'.state # "pending"
                     /\ closed.state = "pending" => closed'.value = pulls[p].value
                     /\ handle' = "released"
                ELSE /\ closed' = closed
                     /\ pulls'[p].pc \in {"awaitEvent", "awaitFail"} ]_vars

\* C5: whenever closed is resolved, its value is undefined or a {code, reason}
\* record
C5_ClosedValueShape ==
  closed.how = "resolved" => closed.value.t \in {"undefined", "closeInfo"}

\* C6: in the early-close branch connection never resolves, the two futures never
\* differ once one is settled, and once the transport has delivered a terminal
\* event (Closed, Error or Close) both are rejected with the NetworkError
C6_EarlyCloseRejectsBoth ==
  early # "idle" =>
    /\ connection.how # "resolved"
    /\ (connection.state # "pending" \/ closed.state # "pending")
         => connection = closed
    /\ lastEvent.kind \notin (NonTerminalKinds \cup {NoCode})
         => connection = Rejected(NetworkError) /\ closed = Rejected(NetworkError)

\* C7: every Ping the transport delivered was answered by exactly one Pong, and
\* only Text and Binary payloads are items of the inbound stream
C7_OnePongPerPing ==
  /\ calls.pong = pings
  /\ \A i \in DOMAIN enqueued : enqueued[i].t = "payload"

\* C8: close({code: c}) passes validation iff c = 1000 or 3000 <= c < 5000, and
\* a rejected call leaves the instance unchanged
ValidCloseCode(c) == c = 1000 \/ (3000 <= c /\ c < 5000)
C8_CodeValidation ==
  [][ (CloseCalled /\ LastCall.info.code # NoCode /\ LastCall.info.reason = EmptyReason)
        => /\ LastCall.threw <=> ~ValidCloseCode(LastCall.info.code)
           /\ LastCall.threw => UNCHANGED InstanceState ]_vars

\* what close() does once its argument is accepted
NormalCloseAction ==
  IF connection.state = "pending"
    THEN earlyClose' /\ calls' = calls
    ELSE IF closed.state = "pending"
      THEN calls' = [calls EXCEPT !.close = @ + 1] /\ closeOps'.pending = closeOps.pending + 1
      ELSE UNCHANGED InstanceState

\* C9: close({reason: r}) with more than 123 UTF-8 bytes throws and changes
\* nothing of the instance (no flag, no transport call, no future settled), and
\* every close() accepted after such a call performs its normal action
C9_LongReasonRejected ==
  [][ /\ (CloseCalled /\ Utf8ByteLength(LastCall.info.reason) > MaxReasonBytes)
         => LastCall.threw /\ UNCHANGED InstanceState
      /\ ( /\ CloseCalled
           /\ ~LastCall.threw
           /\ \E i \in DOMAIN closeLog :
                Utf8ByteLength(closeLog[i].info.reason) > MaxReasonBytes )
         => NormalCloseAction ]_vars

\* C9 witness: a reason of 42 three-byte code points (126 bytes) was rejected and
\* the next close() sent the close frame on the open connection
C9_Witness ==
  /\ Len(closeLog) = 2
  /\ closeLog[1] = [info |-> [code |-> NoCode, reason |-> Reason(42, 3)], threw |-> TRUE]
  /\ ~closeLog[2].threw
  /\ calls.close = 1
  /\ closeOps.pending = 1

\* C10: a protocol list with two entries equal after lowercasing makes the
\* constructor throw before the cancel handle is allocated or connect is issued
HasCaseInsensitiveDuplicate(ps) ==
  \E i, j \in DOMAIN ps :
    i # j /\ StringPrototypeToLowerCase(ps[i]) = StringPrototypeToLowerCase(ps[j])
C10_DuplicateProtocolsRejected ==
  (ctor # "new" /\ HasCaseInsensitiveDuplicate(args.protocols))
    => /\ ctor = "threw"
       /\ calls = NoCalls
       /\ cancelRid = "none"
       /\ create = "none"

\* C10 witness: ["Chat", "chat"] with a valid URL was rejected
C10_Witness ==
  /\ ctor = "threw"
  /\ args.protocols = <<p_Chat, p_chat>>
  /\ UrlSchemeOk(args.url) /\ UrlFragmentOk(args.url)
  /\ calls = NoCalls

\* C11: a signal already aborted at construction: in that very step the cancel
\* handle is released and both futures reject with the signal's reason, and
\* op_ws_create is issued neither then nor later
C11_AbortedAtConstruction ==
  [][ /\ (ctor = "new" /\ ctor' = "constructed" /\ signal' = "aborted")
         => /\ calls'.create = 0
            /\ create' = "none"
            /\ cancelRid' = "closed"
            /\ connection' = Rejected(AbortReason)
            /\ closed' = Rejected(AbortReason)
      /\ (ctor = "constructed" /\ create = "none")
         => calls'.create = 0 /\ create' = "none" ]_vars

\* C11 witness: constructed with an aborted signal, and close() was called on the
\* instance afterwards
C11_Witness ==
  /\ ctor = "constructed"
  /\ signal = "aborted"
  /\ calls = [NoCalls EXCEPT !.cancelHandle = 1]
  /\ cancelRid = "closed"
  /\ closed = Rejected(AbortReason)
  /\ Len(closeLog) = 1

\* StreamState of the instance, read off its futures
StreamState ==
  IF closed.how = "rejected" THEN "Errored"
  ELSE IF closed.how = "resolved" THEN "Closed"
  ELSE IF closeSent.state = "fulfilled" THEN "CloseSent"
  ELSE IF connection.how = "resolved" THEN "Open"
  ELSE IF earlyClose THEN "EarlyClosed"
  ELSE "Connecting"

\* C12: close() in CloseSent, Closed or Errored changes nothing of the instance
\* and issues no op_ws_close, so that no second close frame is sent
C12_CloseIdempotent ==
  [][ (CloseCalled /\ StreamState \in {"CloseSent", "Closed", "Errored"})
        => /\ UNCHANGED InstanceState
           /\ calls'.close <= 1 ]_vars

\* C14: a pump invocation that receives a Pong on the open connection enqueues
\* nothing and goes on to the next event: it does not return
C14_PongContinues ==
  [][ \A p \in Pumps :
        (PumpHandles(p) /\ lastEvent'.kind = 2 /\ handle = "open")
          => /\ enqueued' = enqueued
             /\ pulls'[p].pc \in {"awaitTs", "awaitEvent"} ]_vars

C19_StateEdges ==
  [][ /\ StreamState = "CloseSent" => StreamState' \in {"CloseSent", "Closed"}
      /\ StreamState \in {"Closed", "Errored"} => StreamState' = StreamState ]_vars

\* C20: at most one op_ws_next_event is outstanding on the handle, and none is
\* issued on a released handle
C20_OneRequestOutstanding ==
  /\ Cardinality({ p \in Pumps : pulls[p].pc = "awaitEvent" }) <= 1
  /\ \A p \in Pumps : pulls[p].pc # "awaitFail"

\* the value a terminal event resolves closed with
TerminalValue(e) ==
  IF e.kind = 6 THEN Undefined ELSE CloseInfoVal(e.kind, e.value.s)
\* pump invocation p receives a terminal event (Closed or Close) in this step
TerminalHandled(p) ==
  PumpHandles(p) /\ lastEvent'.kind \notin (NonTerminalKinds \cup {5})

\* C13: a terminal event handled while closed is pending resolves closed with
\* undefined (Closed) or {code, reason} (Close); once the reaction on closed has
\* run and no sink operation is in flight, the inbound stream is closed, not
\* errored, and the outbound stream is closed
C13_TerminalEventEndsStreams ==
  /\ [][ \A p \in Pumps :
           (TerminalHandled(p) /\ closed.state = "pending")
             => closed' = [state |-> "fulfilled", how |-> "resolved",
                           value |-> TerminalValue(lastEvent')] ]_vars
  /\ []((closedThen = "done" /\ sink = "idle")
          => readable = "closed" /\ writable = "closed")

\* C13 as amended: closed resolves as stated; the reaction on closed then closes
\* the inbound stream if it is still readable and the outbound stream if it is
\* still writable (after a write in flight); a stream that ended closed is never
\* errored afterwards, one that had ended before stays as it ended, and once the
\* reaction has run and no sink operation is in flight both streams have ended
C13_TerminalEventEndsOpenStreams ==
  /\ [][ /\ \A p \in Pumps :
             (TerminalHandled(p) /\ closed.state = "pending")
               => closed' = [state |-> "fulfilled", how |-> "resolved",
                             value |-> TerminalValue(lastEvent')]
         /\ (closedThen = "queued" /\ closedThen' = "done")
               => /\ readable' = IF readable = "readable" THEN "closed" ELSE readable
                  /\ writable = "writable" => writable' \in {"closing", "closed"}
                  /\ writable # "writable" => writable' = writable
         /\ readable \in {"closed", "errored"} => readable' = readable
         /\ writable \in {"closed", "errored"} => writable' = writable ]_vars
  /\ []((closedThen = "done" /\ sink = "idle")
          => readable \in {"closed", "errored"} /\ writable \in {"closed", "errored"})

\* C13 witness: the peer's Close{4001, "bye"} came before any local close and
\* both streams ended closed
C13_Witness ==
  /\ closed = [state |-> "fulfilled", how |-> "resolved",
               value |-> CloseInfoVal(4001, "bye")]
  /\ closedThen = "done"
  /\ calls.close = 0
  /\ readable = "closed"
  /\ writable = "closed"

\* C15: the items enqueued on the inbound stream are the payloads of all Text and
\* Binary events delivered so far, in the order of delivery
C15_EnqueuedEqualsDelivered ==
  enqueued = [i \in 1..messages |-> Payload(i)]

\* C15 as amended: a Text or Binary event received by a pump invocation while the
\* inbound stream is readable is enqueued at the end, once; nothing else changes
\* the items, so they stay in the order of delivery, without duplicates; an event
\* received when there is no readable inbound stream is not enqueued
C15_EnqueuedInDeliveryOrder ==
  /\ [][ IF \E p \in Pumps : /\ PumpHandles(p)
                              /\ lastEvent'.kind \in {0, 1}
                              /\ readable = "readable"
           THEN enqueued' = Append(enqueued, Payload(messages'))
           ELSE enqueued' = enqueued ]_vars
  /\ [](\A i, j \in DOMAIN enqueued : i < j => enqueued[i].code < enqueued[j].code)

\* C15 witness: the first message was enqueued by the invocation the stream started,
\* the second by the one started when the close-sent timestamp was recorded, while
\* the stream's invocation was awaiting its next event
C15_Witness ==
  /\ enqueued = << Payload(1), Payload(2) >>
  /\ pulls["closeSent"].pc = "awaitTs"
  /\ pulls["closeSent"].value = Payload(2)
  /\ pulls["stream"].pc = "awaitEvent"

\* C16: once closed is settled (and the reaction on it, if one was queued, has
\* run), no op_ws_send and no op_ws_close is issued
C16_NoEffectOnceSettled ==
  [][ (closed.state # "pending" /\ closedThen # "queued")
        => calls'.send = calls.send /\ calls'.close = calls.close ]_vars

\* C17: the sink's close() or abort() completes only once closed is settled; when
\* it starts, the last close() it made went through, after one that threw if the
\* reason's close info is invalid, and sent the close frame if closed is pending
C17_SinkWaitsForClosed ==
  [][ /\ (sink \in {"close", "abort"} /\ sink' = "idle") => closed.state # "pending"
      /\ (sink = "idle" /\ sink' \in {"close", "abort"})
         => /\ ~closeLog'[Len(closeLog')].threw
            /\ Len(closeLog') = Len(closeLog) + 2
                 => /\ closeLog'[Len(closeLog) + 1].threw
                    /\ closeLog'[Len(closeLog')].info = DefaultInfo
            /\ closed.state = "pending"
                 => /\ calls'.close = calls.close + 1
                    /\ closeOps'.pending = closeOps.pending + 1 ]_vars

\* C17 witness: abort({code: 2000}) fell back to close(), the close frame was sent,
\* and the abort completed after an Error event had rejected closed
C17_Witness ==
  /\ closeLog = << [info |-> [code |-> 2000, reason |-> EmptyReason], threw |-> TRUE],
                   [info |-> DefaultInfo, threw |-> FALSE] >>
  /\ calls.close = 1
  /\ closed = Rejected(ErrorVal("boom"))
  /\ readable = "errored"
  /\ writable = "errored"
  /\ sink = "idle"

====
